---- MODULE Spec2Model ----
(***************************************************************************)
(* Distributed layout of plane-wave wavefunctions in qimpy:                *)
(*   - TaskDivision (the Partition of n_tot units over n_procs processes), *)
(*   - Basis.__init__ (padded basis count, fft_index, pad_index, division),*)
(*   - Wavefunction.split_bands / split_basis and their Waitable handles   *)
(*     (all-to-all transposition between the two distributed layouts).     *)
(*                                                                         *)
(* Tensors are modelled as a shape and the row-major list of the elements  *)
(* (what .contiguous() stores); indices are 0-based as in the source.      *)
(***************************************************************************)
EXTENDS Integers, Sequences, FiniteSets, TLC

VARIABLES
    \* --- TaskDivision construction (SpecPartition)
    pIn,        \* arguments (n_tot, n_procs, i_proc) of the constructor call
    part,       \* the constructed TaskDivision, NoValue before, or the error
    \* --- Basis construction (SpecBasis)
    bIn,        \* inputs of Basis.__init__ that decide the index sets
    basis,      \* per process of comm_b: the constructed Basis, or NoValue
    \* --- Wavefunction transposition (Spec)
    cfg,        \* run constants: n_procs_b, n_each, n_bands, dims, program
    wfs,        \* per process: the Wavefunction objects created so far (heap)
    cur,        \* per process: id (index in wfs) of the current Wavefunction
    pc,         \* per process: number of conversions resolved so far
    handle,     \* per process: the Waitable returned by the pending call
    net,        \* per collective and sender: the chunks posted to each peer
    res,        \* per process: ids yielded by the resolved conversions
    trace       \* per process: events of the last split_* call and its wait

vars == <<pIn, part, bIn, basis, cfg, wfs, cur, pc, handle, net, res, trace>>

partVars == <<pIn, part>>
basisVars == <<bIn, basis>>
splitVars == <<cfg, wfs, cur, pc, handle, net, res, trace>>

NoValue == [tag |-> "None"]

\* the variables of the other components stay unset
PartIdle == pIn = NoValue /\ part = NoValue
BasisIdle == bIn = NoValue /\ basis = NoValue
SplitIdle ==
    /\ cfg = NoValue /\ wfs = NoValue /\ cur = NoValue /\ pc = NoValue
    /\ handle = NoValue /\ net = NoValue /\ res = NoValue /\ trace = NoValue

(***************************************************************************)
(* Bounds of the model                                                     *)
(***************************************************************************)
MaxProcs == 3      \* processes in the basis-communication group (comm_b)
MaxTot == 10       \* units divided by a TaskDivision in SpecPartition
MaxBands == 3      \* bands of a Wavefunction (besides the 10-band scenario)
NEach == 2         \* basis entries per process (n_tot / n_procs_b)
MaxFft == 8        \* points of the wavefunction FFT grid
MaxOps == 2        \* conversions in the program run by every process

(***************************************************************************)
(* Integer and sequence helpers                                            *)
(***************************************************************************)
Min(a, b) == IF a <= b THEN a ELSE b
Max(a, b) == IF a >= b THEN a ELSE b

\* qp.utils.ceildiv: ceiling of num / den for positive den
ceildiv(num, den) == (num + den - 1) \div den

RECURSIVE SeqProd(_)
\* np.prod of a shape tuple (1 for the empty tuple)
SeqProd(s) == IF s = <<>> THEN 1 ELSE Head(s) * SeqProd(Tail(s))

SetMin(S) == CHOOSE x \in S : \A y \in S : x <= y
SetMax(S) == CHOOSE x \in S : \A y \in S : x >= y

(***************************************************************************)
(* Partition (qp.utils.TaskDivision)                                       *)
(*                                                                         *)
(* The class is used by Basis.__init__ and _split_bands; its constructor   *)
(* is described by the specification of the Partition: the first           *)
(* n_tot mod n_procs processes get ceil(n_tot / n_procs) units, the rest   *)
(* floor(n_tot / n_procs), and construction fails for n_procs = 0 or       *)
(* i_proc >= n_procs.  n_prev is indexed 0 .. n_procs as in the source.    *)
(***************************************************************************)
InvalidPartition == [tag |-> "InvalidPartition"]

\* A division in equal blocks of ceil(n_tot / n_procs), the last ones short
NPrevCeilBlocks(n_tot, n_procs) ==
    [p \in 0..n_procs |-> Min(p * ceildiv(n_tot, n_procs), n_tot)]

\* A near-equal division that hands the remainder to the last processes
NPrevRemainderLast(n_tot, n_procs) ==
    [p \in 0..n_procs |->
        p * (n_tot \div n_procs)
            + Max(0, p - (n_procs - (n_tot % n_procs)))]

\* n_prev[p]: number of units owned by the processes before p
NPrev(n_tot, n_procs) ==
    [p \in 0..n_procs |->
        p * (n_tot \div n_procs) + Min(p, n_tot % n_procs)]

\* A constructor that takes a rank beyond the group for the last rank
TaskDivisionClampedRank(n_tot, n_procs, i_proc) ==
    IF n_procs = 0
    THEN InvalidPartition
    ELSE LET n_prev == NPrev(n_tot, n_procs)
             i      == Min(i_proc, n_procs - 1)
         IN  [tag     |-> "TaskDivision",
              n_tot   |-> n_tot,
              n_procs |-> n_procs,
              i_proc  |-> i,
              n_each  |-> ceildiv(n_tot, n_procs),
              n_prev  |-> n_prev,
              i_start |-> n_prev[i],
              i_stop  |-> n_prev[i + 1],
              n_mine  |-> n_prev[i + 1] - n_prev[i]]

TaskDivision(n_tot, n_procs, i_proc) ==
    IF n_procs = 0 \/ i_proc >= n_procs
    THEN InvalidPartition
    ELSE LET n_prev == NPrev(n_tot, n_procs)
         IN  [tag     |-> "TaskDivision",
              n_tot   |-> n_tot,
              n_procs |-> n_procs,
              i_proc  |-> i_proc,
              n_each  |-> ceildiv(n_tot, n_procs),
              n_prev  |-> n_prev,
              i_start |-> n_prev[i_proc],
              i_stop  |-> n_prev[i_proc + 1],
              n_mine  |-> n_prev[i_proc + 1] - n_prev[i_proc]]

\* the end of every process's range in place of its count
DiffEnds(n_prev, n_procs) == [p \in 0..(n_procs - 1) |-> n_prev[p + 1]]

\* np.diff(division.n_prev): the count of every process, indexed 0 .. n_procs-1
Diff(n_prev, n_procs) == [p \in 0..(n_procs - 1) |-> n_prev[p + 1] - n_prev[p]]

IsDivision(d) == d.tag = "TaskDivision"

(***************************************************************************)
(* SpecPartition: one constructor call on arbitrary bounded arguments      *)
(***************************************************************************)
PartInit ==
    /\ pIn \in [n_tot : 0..MaxTot, n_procs : 0..MaxProcs, i_proc : 0..MaxProcs]
    /\ part = NoValue
    /\ BasisIdle /\ SplitIdle

PartitionConstruct ==
    /\ part = NoValue
    /\ part' = TaskDivision(pIn.n_tot, pIn.n_procs, pIn.i_proc)
    /\ UNCHANGED <<pIn, basisVars, splitVars>>

PartNext == PartitionConstruct

SpecPartition == PartInit /\ [][PartNext]_vars

(***************************************************************************)
(* Basis.__init__: basis counts, padding, fft_index, pad_index, division   *)
(*                                                                         *)
(* within_cutoff[k] is the set of linear grid positions i (0 <= i < n_fft) *)
(* with get_ke() < ke_cutoff at the k-th local k-point; the kinetic energy *)
(* itself depends on the lattice, so the mask is the input.  n_other holds *)
(* the basis counts of the k-points of the other processes of comm_k.      *)
(***************************************************************************)
AssertionError == [tag |-> "AssertionError"]
ValueError == [tag |-> "ValueError"]

\* An exception leaving __init__: the attributes assigned to self before the
\* raise statement are all there is of the object
Failed(error, self) == [f \in DOMAIN error \cup DOMAIN self |->
                          IF f \in DOMAIN error THEN error[f] ELSE self[f]]

RECURSIVE SumSquares(_)
\* the sum of the squares of the components of k
SumSquares(k) == IF k = <<>> THEN 0 ELSE Head(k) * Head(k) + SumSquares(Tail(k))

\* bool(kpoints.k.norm().item()): the 2-norm over all k-points is not zero
NormNonzero(k) == SumSquares(k) # 0

\* The check of the k-points alone, spinors let through
RealUnsupportedKOnly(real_wavefunctions, n_spinor, k) ==
    real_wavefunctions /\ NormNonzero(k)

\* the two raise statements of "Check real wavefunction support"
RealUnsupported(real_wavefunctions, n_spinor, k) ==
    real_wavefunctions /\ (n_spinor = 2 \/ NormNonzero(k))

\* qp.grid.Grid on one process (comm=None) and the mesh iG taken from it
Grid(real_wavefunctions, n_fft) ==
    [tag |-> "Grid", mesh |-> IF real_wavefunctions THEN "H" ELSE "G",
     n_fft |-> n_fft]

\* A test that lets the padding exceed the grid by one entry
PaddingFitsOrOneOver(n_tot, n_fft) == n_tot <= n_fft + 1

\* the condition of assert(self.n_tot <= n_fft)
PaddingFits(n_tot, n_fft) == n_tot <= n_fft

\* within_cutoff.count_nonzero(dim=1)
BasisCounts(within_cutoff) ==
    [k \in 1..Len(within_cutoff) |-> Cardinality(within_cutoff[k])]

\* qp.utils.globalreduce.min / max over comm_k
GlobalMin(n, n_other) == SetMin({n[k] : k \in DOMAIN n} \cup n_other)
GlobalMax(n, n_other) == SetMax({n[k] : k \in DOMAIN n} \cup n_other)

\* The count rounded down to a multiple of the group size
NTotFloor(n_max, n_procs_b) == (n_max \div n_procs_b) * n_procs_b

\* n_tot: the count rounded up to a multiple of the group size
NTot(n_max, n_procs_b) == ceildiv(n_max, n_procs_b) * n_procs_b

\* Ordering key with an offset that does not clear the grid positions
SortKeyUnitOffset(within, n_fft, i) == (IF i \in within THEN 0 ELSE 1) + i

\* torch.where(within_cutoff, 0, n_fft) + fft_range
SortKey(within, n_fft, i) == (IF i \in within THEN 0 ELSE n_fft) + i

\* key.argsort(): position j (0-based, stored at j + 1) holds the index whose
\* key has exactly j keys before it (ties, if any, in index order)
ArgSort(key, n) ==
    LET rank == [i \in 0..(n - 1) |->
                    Cardinality({h \in 0..(n - 1) :
                        key[h] < key[i] \/ (key[h] = key[i] /\ h < i)})]
    IN  [j \in 1..n |-> CHOOSE i \in 0..(n - 1) : rank[i] = j - 1]

\* seq[:stop] of a sequence of length Len(seq)
Prefix(seq, stop) == SubSeq(seq, 1, Min(stop, Len(seq)))

\* fft_index of one k-point
FftIndex(within, n_fft, n_tot) ==
    Prefix(ArgSort([i \in 0..(n_fft - 1) |-> SortKey(within, n_fft, i)], n_fft),
           n_tot)

\* fft_range[start:stop] of fft_range = arange(n_fft): the values it holds
RangeSlice(start, stop, n_fft) == start..(Min(stop, n_fft) - 1)

\* Padding test that also spares the first padded slot
PadIndexStrict(n, n_tot, n_fft) ==
    {<<k, j>> \in (DOMAIN n) \X (0..(Min(n_tot, n_fft) - 1)) : j > n[k]}

\* torch.where(fft_range[None, :n_tot] >= n[:, None]) as a set of (k, position)
PadIndex(n, n_tot, n_fft) ==
    {<<k, j>> \in (DOMAIN n) \X (0..(Min(n_tot, n_fft) - 1)) :
        j \in RangeSlice(0, n_tot, n_fft) /\ j >= n[k]}

\* Local padding computed as if the local range started at 0
PadIndexMineUnshifted(n, i_start, i_stop, n_fft) ==
    {<<k, j>> \in (DOMAIN n) \X (0..(i_stop - i_start - 1)) : j >= n[k]}

\* torch.where(fft_range[None, i_start:i_stop] >= n[:, None]): (k, local position)
PadIndexMine(n, i_start, i_stop, n_fft) ==
    {<<k, j>> \in (DOMAIN n) \X (0..(i_stop - i_start - 1)) :
        i_start + j \in RangeSlice(i_start, i_stop, n_fft) /\ i_start + j >= n[k]}

\* Basis.__init__ on process i_proc_b of comm_b
BasisInit(in, i_proc_b) ==
    LET n     == BasisCounts(in.within_cutoff)
        n_min == GlobalMin(n, in.n_other)
        n_max == GlobalMax(n, in.n_other)
        n_tot == NTot(n_max, in.n_procs_b)
        n_fft == in.n_fft
        div   == TaskDivision(n_tot, in.n_procs_b, i_proc_b)
        real  == in.real_wavefunctions
        grid  == Grid(real, n_fft)
    IN  IF RealUnsupported(real, in.n_spinor, in.k)
        THEN Failed(ValueError, [real_wavefunctions |-> real])
        ELSE IF ~PaddingFits(n_tot, n_fft)
        THEN Failed(AssertionError,
                    [real_wavefunctions |-> real, grid |-> grid, n |-> n,
                     n_min |-> n_min, n_max |-> n_max, n_tot |-> n_tot])
        ELSE [tag            |-> "Basis",
              real_wavefunctions |-> real,
              grid           |-> grid,
              n              |-> n,
              n_min          |-> n_min,
              n_max          |-> n_max,
              n_tot          |-> n_tot,
              fft_index      |-> [k \in DOMAIN n |->
                                    FftIndex(in.within_cutoff[k], n_fft, n_tot)],
              pad_index      |-> PadIndex(n, n_tot, n_fft),
              division       |-> div,
              mine           |-> <<div.i_start, div.i_stop>>,
              pad_index_mine |-> PadIndexMine(n, div.i_start, div.i_stop, n_fft)]

(***************************************************************************)
(* SpecBasis: every process of comm_b constructs the Basis of one run      *)
(***************************************************************************)
\* The run has two k-points.  The cutoff sphere of the first is any set of
\* grid positions, that of the second holds the first c positions; the second
\* k-point is local, or belongs to another process of comm_k (n_other).
\* Complex wavefunctions without spinors; the second k-point is not Gamma.
BasisSpecInit ==
    /\ \E f \in 1..MaxFft, P \in 1..MaxProcs :
          \E m1 \in SUBSET (0..(f - 1)), c \in 0..f, local \in BOOLEAN :
              bIn = [n_fft         |-> f,
                     n_procs_b     |-> P,
                     within_cutoff |-> IF local THEN <<m1, 0..(c - 1)>> ELSE <<m1>>,
                     n_other       |-> IF local THEN {} ELSE {c},
                     real_wavefunctions |-> FALSE,
                     n_spinor      |-> 1,
                     k             |-> <<0, 1>>]
    /\ basis = NoValue
    /\ PartIdle /\ SplitIdle

BasisConstruct ==
    /\ basis = NoValue
    /\ basis' = [tag |-> "Group",
                 of  |-> [p \in 0..(bIn.n_procs_b - 1) |-> BasisInit(bIn, p)]]
    /\ UNCHANGED <<bIn, partVars, splitVars>>

BasisNext == BasisConstruct

SpecBasis == BasisSpecInit /\ [][BasisNext]_vars

(***************************************************************************)
(* SpecBasisReal: the same construction with real or complex wavefunctions *)
(***************************************************************************)
\* components a k-point takes, in units of the k-point mesh spacing
KComponents == {0 - 1, 0, 1}

\* Two local k-points given by one component each, with the cutoff spheres
\* holding the first c1 and c2 grid positions; real wavefunctions requested
\* or not, with one or two spinor components.
BasisRealInit ==
    /\ \E f \in 1..MaxFft, P \in 1..MaxProcs :
          \E c1 \in 0..f, c2 \in 0..f, real \in BOOLEAN, n_spinor \in {1, 2} :
              \E k1 \in KComponents, k2 \in KComponents :
                  bIn = [n_fft         |-> f,
                         n_procs_b     |-> P,
                         within_cutoff |-> <<0..(c1 - 1), 0..(c2 - 1)>>,
                         n_other       |-> {},
                         real_wavefunctions |-> real,
                         n_spinor      |-> n_spinor,
                         k             |-> <<k1, k2>>]
    /\ basis = NoValue
    /\ PartIdle /\ SplitIdle

SpecBasisReal == BasisRealInit /\ [][BasisNext]_vars

(***************************************************************************)
(* Properties of the Partition (SpecPartition)                             *)
(***************************************************************************)
ValidPartitionArgs == pIn.n_procs >= 1 /\ pIn.i_proc < pIn.n_procs

\* C5: for valid (n_tot, n_procs, i_proc) the constructed Partition has n_prev
\* of length n_procs + 1 with n_prev[0] = 0 and n_prev[n_procs] = n_tot, n_prev
\* is non-decreasing, the per-process counts differ by at most 1, and
\* i_start = n_prev[i_proc], i_stop = n_prev[i_proc + 1], n_mine = i_stop - i_start.
PartitionWellFormed ==
    (part # NoValue /\ ValidPartitionArgs) =>
        /\ IsDivision(part)
        /\ part.n_tot = pIn.n_tot /\ part.n_procs = pIn.n_procs
        /\ part.i_proc = pIn.i_proc
        /\ DOMAIN part.n_prev = 0..pIn.n_procs
        /\ Cardinality(DOMAIN part.n_prev) = pIn.n_procs + 1
        /\ part.n_prev[0] = 0
        /\ part.n_prev[pIn.n_procs] = pIn.n_tot
        /\ \A p \in 0..(pIn.n_procs - 1) : part.n_prev[p] <= part.n_prev[p + 1]
        /\ \A p, q \in 0..(pIn.n_procs - 1) :
              (part.n_prev[p + 1] - part.n_prev[p])
                  - (part.n_prev[q + 1] - part.n_prev[q]) <= 1
        /\ part.i_start = part.n_prev[pIn.i_proc]
        /\ part.i_stop = part.n_prev[pIn.i_proc + 1]
        /\ part.n_mine = part.i_stop - part.i_start

\* a Partition with an uneven split has been constructed for a middle rank
PartitionWellFormedWitness ==
    /\ IsDivision(part)
    /\ pIn.n_tot = 7 /\ pIn.n_procs = 3 /\ pIn.i_proc = 1
    /\ part.i_start = 3 /\ part.i_stop = 5 /\ part.n_mine = 2

\* C6: for valid (n_tot, n_procs) each of the first (n_tot mod n_procs)
\* processes in rank order owns ceil(n_tot / n_procs) units and each of the
\* remaining processes owns floor(n_tot / n_procs) units.
PartitionCeilFirst ==
    (part # NoValue /\ ValidPartitionArgs) =>
        /\ IsDivision(part)
        /\ \A p \in 0..(pIn.n_procs - 1) :
              LET count == part.n_prev[p + 1] - part.n_prev[p]
                  floor == pIn.n_tot \div pIn.n_procs
                  ceil  == IF pIn.n_tot % pIn.n_procs = 0 THEN floor ELSE floor + 1
              IN  count = IF p < pIn.n_tot % pIn.n_procs THEN ceil ELSE floor

\* 10 units over 3 processes: the first owns 4, the other two own 3
PartitionCeilFirstWitness ==
    /\ IsDivision(part)
    /\ pIn.n_tot = 10 /\ pIn.n_procs = 3
    /\ Diff(part.n_prev, 3) = [p \in 0..2 |-> IF p = 0 THEN 4 ELSE 3]

(***************************************************************************)
(* Properties of Basis construction (SpecBasis)                            *)
(***************************************************************************)
BasisProcs == 0..(bIn.n_procs_b - 1)
BasisBuilt(p) == basis.tag = "Group" /\ basis.of[p].tag = "Basis"

\* C7: after construction n_tot = ceil(n_max / P) * P: a multiple of P with
\* n_max <= n_tot < n_max + P; every k-point has n_tot slots; n_min <= n[k] <=
\* n_max for every local k; every process owns n_tot / P basis entries.
PaddingContract ==
    \A p \in BasisProcs : BasisBuilt(p) =>
        LET b == basis.of[p]
            P == bIn.n_procs_b
        IN  /\ b.n_tot % P = 0
            /\ b.n_max <= b.n_tot /\ b.n_tot < b.n_max + P
            /\ \A k \in DOMAIN b.n :
                  /\ Len(b.fft_index[k]) = b.n_tot
                  /\ b.n_min <= b.n[k] /\ b.n[k] <= b.n_max
            /\ b.division.n_tot = b.n_tot
            /\ b.division.n_mine * P = b.n_tot
            /\ \A q \in 0..(P - 1) :
                  b.division.n_prev[q + 1] - b.division.n_prev[q] = b.n_tot \div P
            /\ b.mine[2] - b.mine[1] = b.n_tot \div P

\* a basis of 3 processes was padded from n_max = 4 to n_tot = 6
PaddingContractWitness ==
    /\ bIn.n_procs_b = 3
    /\ \A p \in BasisProcs :
          /\ BasisBuilt(p)
          /\ basis.of[p].n_max = 4 /\ basis.of[p].n_tot = 6
          /\ basis.of[p].n_min = 1
          /\ basis.of[p].division.n_mine = 2

\* C8: for every local k, pad_index marks exactly the positions j with
\* n[k] <= j < n_tot: n_tot - n[k] positions, none below n[k].
PadIndexExact ==
    \A p \in BasisProcs : BasisBuilt(p) =>
        LET b == basis.of[p]
        IN  /\ b.pad_index \subseteq (DOMAIN b.n) \X (0..(b.n_tot - 1))
            /\ \A k \in DOMAIN b.n :
                  LET marked == {j \in 0..(b.n_tot - 1) : <<k, j>> \in b.pad_index}
                  IN  /\ marked = b.n[k]..(b.n_tot - 1)
                      /\ Cardinality(marked) = b.n_tot - b.n[k]
                      /\ \A j \in marked : j >= b.n[k]

\* n = [5, 7] and P = 2: n_tot = 8, k = 0 marks {5, 6, 7} and k = 1 marks {7}
PadIndexExactWitness ==
    /\ bIn.n_procs_b = 2
    /\ BasisBuilt(0)
    /\ basis.of[0].n = <<5, 7>>
    /\ basis.of[0].n_tot = 8
    /\ basis.of[0].pad_index = {<<1, 5>>, <<1, 6>>, <<1, 7>>, <<2, 7>>}

\* C9: on every process and for every local k, pad_index_mine marks the local
\* position j (0 <= j < n_mine) iff i_start + j is marked in pad_index, i.e.
\* i_start + j >= n[k]; over the group, the sets shifted by i_start are
\* pairwise disjoint and their union is pad_index.
ShiftedPadMine(b) == {<<e[1], b.division.i_start + e[2]>> : e \in b.pad_index_mine}

PadIndexMineExact ==
    (\A p \in BasisProcs : BasisBuilt(p)) =>
        /\ \A p \in BasisProcs :
              LET b == basis.of[p]
              IN  /\ b.pad_index_mine
                        \subseteq (DOMAIN b.n) \X (0..(b.division.n_mine - 1))
                  /\ \A k \in DOMAIN b.n, j \in 0..(b.division.n_mine - 1) :
                        /\ (<<k, j>> \in b.pad_index_mine)
                              <=> (<<k, b.division.i_start + j>> \in b.pad_index)
                        /\ (<<k, j>> \in b.pad_index_mine)
                              <=> (b.division.i_start + j >= b.n[k])
        /\ \A p, q \in BasisProcs :
              p # q => ShiftedPadMine(basis.of[p]) \cap ShiftedPadMine(basis.of[q]) = {}
        /\ \A p \in BasisProcs :
              UNION {ShiftedPadMine(basis.of[q]) : q \in BasisProcs}
                  = basis.of[p].pad_index

\* with n = [3, 4] on 2 processes of 2 entries each, process 1 (i_start = 2)
\* marks its local position 1 for k = 0 only, and process 0 marks nothing
PadIndexMineExactWitness ==
    /\ bIn.n_procs_b = 2
    /\ BasisBuilt(0) /\ BasisBuilt(1)
    /\ basis.of[1].n = <<3, 4>>
    /\ basis.of[1].division.i_start = 2
    /\ basis.of[1].pad_index_mine = {<<1, 1>>}
    /\ basis.of[0].pad_index_mine = {}

\* C10: for every local k the n_tot entries of fft_index are pairwise distinct;
\* the first n[k] are exactly the grid points within the cutoff in ascending
\* linear position; the remaining n_tot - n[k] are grid points outside the
\* cutoff, those of lowest linear position, in ascending order.
FftIndexOrder ==
    \A p \in BasisProcs : BasisBuilt(p) =>
        LET b == basis.of[p]
        IN  \A k \in DOMAIN b.n :
              LET f      == b.fft_index[k]
                  within == bIn.within_cutoff[k]
                  chosen == {f[j] : j \in 1..Len(f)}
              IN  /\ Len(f) = b.n_tot
                  /\ \A i, j \in 1..Len(f) : i # j => f[i] # f[j]
                  /\ chosen \subseteq 0..(bIn.n_fft - 1)
                  /\ {f[j] : j \in 1..b.n[k]} = within
                  /\ \A i, j \in 1..b.n[k] : i < j => f[i] < f[j]
                  /\ \A j \in (b.n[k] + 1)..Len(f) : f[j] \notin within
                  /\ \A i, j \in (b.n[k] + 1)..Len(f) : i < j => f[i] < f[j]
                  /\ \A j \in (b.n[k] + 1)..Len(f) :
                        \A g \in 0..(bIn.n_fft - 1) :
                            (g \notin within /\ g < f[j]) => g \in chosen

\* grid of 6 points, cutoff keeps {1, 4}, n_tot = 4: the basis is 1, 4 and the
\* padding slots are the grid points 0, 2
FftIndexOrderWitness ==
    /\ bIn.n_fft = 6
    /\ bIn.within_cutoff[1] = {1, 4}
    /\ BasisBuilt(0)
    /\ basis.of[0].n_tot = 4
    /\ basis.of[0].fft_index[1] = <<1, 4, 0, 2>>

(***************************************************************************)
(* Tensors: [shape, data, stride, base].  data holds the elements in the   *)
(* row-major order of shape (the logical order); stride and base say where *)
(* they live: base names the allocation (storage) the tensor reads and     *)
(* writes, stride the step of every dimension within it.                   *)
(***************************************************************************)
RECURSIVE SumTo(_, _)
\* sum of f[1] .. f[n]
SumTo(f, n) == IF n = 0 THEN 0 ELSE f[n] + SumTo(f, n - 1)

\* the sequence of the elements f[1], .., f[n] of a function on 1..n
Elements(f) == SubSeq(f, 1, Cardinality(DOMAIN f))

\* row-major strides of a shape
Strides(shape) ==
    [d \in 1..Len(shape) |-> SeqProd(SubSeq(shape, d + 1, Len(shape)))]

\* an allocation made by process-local code: the initial array ("init"), or
\* the send buffer, receive buffer or result copy of the seq-th collective
Storage(kind, seq) == [kind |-> kind, seq |-> seq]

\* a buffer of zeros placed in the storage of the initial array
ZerosInPlace(shape, base) ==
    [shape  |-> shape,
     data   |-> Elements([j \in 1..SeqProd(shape) |-> 0]),
     stride |-> Elements(Strides(shape)),
     base   |-> Storage("init", 0)]

\* torch.zeros(shape): a fresh allocation
Zeros(shape, base) ==
    [shape  |-> shape,
     data   |-> Elements([j \in 1..SeqProd(shape) |-> 0]),
     stride |-> Elements(Strides(shape)),
     base   |-> base]

\* t.permute(perm): a view of the storage of t; dimension d of the result is
\* dimension perm[d] (0-based, as in torch) of t
Permute(t, perm) ==
    LET n      == Len(perm)
        oshape == [d \in 1..n |-> t.shape[perm[d] + 1]]
        ostr   == Strides(oshape)
        istr   == Strides(t.shape)
    IN  [shape  |-> oshape,
         data   |-> Elements([j \in 1..SeqProd(oshape) |->
                        t.data[1 + SumTo([d \in 1..n |->
                                    (((j - 1) \div ostr[d]) % oshape[d])
                                        * istr[perm[d] + 1]], n)]]),
         stride |-> Elements([d \in 1..n |-> t.stride[perm[d] + 1]]),
         base   |-> t.base]

\* t.is_contiguous(): no element, or every dimension of more than one entry
\* has its row-major stride
IsContiguous(t) ==
    \/ SeqProd(t.shape) = 0
    \/ \A d \in 1..Len(t.shape) :
          t.shape[d] = 1 \/ t.stride[d] = Strides(t.shape)[d]

\* t.contiguous(): t itself when it is contiguous, else a row-major copy in a
\* fresh allocation
Contiguous(t, base) ==
    IF IsContiguous(t) THEN t
    ELSE [shape  |-> t.shape,
          data   |-> t.data,
          stride |-> Elements(Strides(t.shape)),
          base   |-> base]

\* t.view(shape) for a shape that splits the last dimension of t in two: a
\* view of the same storage
View(t, shape) ==
    LET n == Len(t.shape)
    IN  [shape  |-> shape,
         data   |-> t.data,
         stride |-> SubSeq(t.stride, 1, n - 1)
                        \o <<shape[n + 1] * t.stride[n], t.stride[n]>>,
         base   |-> t.base]

\* t.flatten(a, b) for adjacent dimensions a, b = a + 1 (0-based): a view
\* when the two dimensions can be walked with one stride, else a row-major
\* copy in a fresh allocation
Flatten(t, a, b, base) ==
    LET shape    == SubSeq(t.shape, 1, a)
                        \o <<SeqProd(SubSeq(t.shape, a + 1, b + 1))>>
                        \o SubSeq(t.shape, b + 2, Len(t.shape))
        viewable == \/ SeqProd(t.shape) = 0
                    \/ t.shape[a + 1] = 1
                    \/ t.shape[b + 1] = 1
                    \/ t.stride[a + 1] = t.shape[b + 1] * t.stride[b + 1]
        merged   == IF t.shape[b + 1] = 1 THEN t.stride[a + 1] ELSE t.stride[b + 1]
    IN  IF viewable
        THEN [shape  |-> shape,
              data   |-> t.data,
              stride |-> SubSeq(t.stride, 1, a) \o <<merged>>
                             \o SubSeq(t.stride, b + 2, Len(t.stride)),
              base   |-> t.base]
        ELSE [shape  |-> shape,
              data   |-> t.data,
              stride |-> Elements(Strides(shape)),
              base   |-> base]

\* two tensors hold the same elements in the same shape
SameArray(s, t) == s.shape = t.shape /\ s.data = t.data

(***************************************************************************)
(* Ialltoallv: what a process posts for each peer, and what lands in the   *)
(* receive buffer once every peer has posted                               *)
(***************************************************************************)
\* count elements of the buffer starting at offset (clipped at its end)
Chunk(data, offset, count) ==
    SubSeq(data, Min(offset, Len(data)) + 1, Min(offset + count, Len(data)))

\* the receive buffer after the chunk of every source p has been stored at
\* recv_offset[p], at most recv_counts[p] elements of it
Receive(recv, chunks, recv_counts, recv_offset, n_procs) ==
    [recv EXCEPT !.data =
        Elements([j \in 1..Len(recv.data) |->
            LET from == {p \in 0..(n_procs - 1) :
                            /\ recv_offset[p] < j
                            /\ j <= recv_offset[p]
                                      + Min(recv_counts[p], Len(chunks[p]))}
            IN  IF from = {} THEN recv.data[j]
                ELSE LET p == SetMax(from)
                     IN  chunks[p][j - recv_offset[p]]])]

(***************************************************************************)
(* The compute stream as the host sees it during a split call: the events  *)
(* so far, the buffers with writes the stream has not been synchronized    *)
(* for (pending), and those handed to MPI in that condition (stale)        *)
(***************************************************************************)
NoStream == [ev |-> <<>>, pending |-> {}, stale |-> {}]

\* a tensor operation that writes the named buffers on the compute stream
Launch(f, event, bufs) ==
    [f EXCEPT !.ev = Append(@, event), !.pending = @ \cup bufs]

\* qp.rc.current_stream_synchronize(): every write launched so far is done
current_stream_synchronize(f) ==
    [f EXCEPT !.ev = Append(@, "sync"), !.pending = {}]

\* basis.comm.Ialltoallv(...): MPI takes the buffers as they are
Ialltoallv(f) ==
    [f EXCEPT !.ev = Append(@, "issue"), !.stale = @ \cup f.pending]

(***************************************************************************)
(* Wavefunction.split_bands / split_basis                                  *)
(*                                                                         *)
(* A Wavefunction is [coeff, band_division]; coeff has the dimensions      *)
(* (spin, k, band, spinor, basis).  A handle refers to the collective it   *)
(* issued by its sequence number on comm_b (MPI matches the collectives of *)
(* a communicator in the order of their issue).                            *)
(***************************************************************************)
\* qp.utils.Waitless(value): an already-resolved handle
Waitless(id) == [tag |-> "Waitless", value |-> id]

\* fast path of _split_bands taken only for a single process
SplitBandsFastSingleOnly(self, division) == division.n_procs = 1

\* (self.basis.division.n_procs == 1) or self.band_division
SplitBandsFast(self, division) ==
    division.n_procs = 1 \/ self.band_division # NoValue

\* (self.basis.division.n_procs == 1) or (self.band_division is None)
SplitBasisFast(self, division) ==
    division.n_procs = 1 \/ self.band_division = NoValue

\* band division over the basis dimension of coeff instead of its band dimension
BandDivisionOverBasis(coeff, division) ==
    TaskDivision(coeff.shape[5], division.n_procs, division.i_proc)

\* TaskDivision(n_tot=self.coeff.shape[2], n_procs=basis.division.n_procs,
\*              i_proc=basis.division.i_proc)
BandDivision(coeff, division) ==
    TaskDivision(coeff.shape[3], division.n_procs, division.i_proc)

\* the arguments of the Ialltoallv issued as collective number seq
Request(seq, send_counts, send_offset, recv_counts, recv_offset) ==
    [seq         |-> seq,
     active      |-> TRUE,
     send_counts |-> send_counts,
     send_offset |-> send_offset,
     recv_counts |-> recv_counts,
     recv_offset |-> recv_offset]

\* general path of _split_bands: the SplitBandsWait it returns
SplitBandsGeneral(self, division, seq) ==
    LET send_coeff    == Contiguous(Permute(self.coeff, <<2, 0, 1, 3, 4>>),
                                    Storage("send", seq))
        n_per_band    == SeqProd(Tail(send_coeff.shape))
        band_division == BandDivision(self.coeff, division)
        procs         == 0..(band_division.n_procs - 1)
        counts        == Diff(band_division.n_prev, band_division.n_procs)
        send_counts   == [q \in procs |-> counts[q] * n_per_band]
        send_offset   == [q \in procs |-> band_division.n_prev[q] * n_per_band]
        recv_count    == band_division.n_mine * n_per_band
        recv_counts   == [q \in procs |-> recv_count]
        recv_offset   == [q \in procs |-> q * recv_count]
        recv_coeff    == Zeros(<<band_division.n_procs, band_division.n_mine>>
                                  \o Tail(send_coeff.shape),
                               Storage("recv", seq))
    IN  [tag           |-> "SplitBandsWait",
         request       |-> Request(seq, send_counts, send_offset,
                                   recv_counts, recv_offset),
         send_coeff    |-> send_coeff,
         recv_coeff    |-> recv_coeff,
         band_division |-> band_division]

\* _split_bands(self) for the Wavefunction with the given id
_split_bands(self, id, division, seq) ==
    IF SplitBandsFast(self, division)
    THEN Waitless(id)
    ELSE SplitBandsGeneral(self, division, seq)

\* general path of _split_basis: the SplitBasisWait it returns
SplitBasisGeneral(self, division, seq) ==
    LET shape         == self.coeff.shape
        send_coeff    == Contiguous(
                             Permute(View(self.coeff,
                                          SubSeq(shape, 1, Len(shape) - 1)
                                              \o <<division.n_procs, division.n_each>>),
                                     <<4, 2, 0, 1, 3, 5>>),
                             Storage("send", seq))
        n_per_band    == SeqProd(SubSeq(send_coeff.shape, 3, Len(send_coeff.shape)))
        band_division == self.band_division
        procs         == 0..(band_division.n_procs - 1)
        counts        == Diff(band_division.n_prev, band_division.n_procs)
        send_count    == band_division.n_mine * n_per_band
        send_counts   == [q \in procs |-> send_count]
        send_offset   == [q \in procs |-> q * send_count]
        recv_counts   == [q \in procs |-> counts[q] * n_per_band]
        recv_offset   == [q \in procs |-> band_division.n_prev[q] * n_per_band]
        recv_coeff    == Zeros(<<band_division.n_tot>>
                                  \o SubSeq(send_coeff.shape, 3, Len(send_coeff.shape)),
                               Storage("recv", seq))
    IN  [tag           |-> "SplitBasisWait",
         request       |-> Request(seq, send_counts, send_offset,
                                   recv_counts, recv_offset),
         send_coeff    |-> send_coeff,
         recv_coeff    |-> recv_coeff]

\* _split_basis(self) for the Wavefunction with the given id
_split_basis(self, id, division, seq) ==
    IF SplitBasisFast(self, division)
    THEN Waitless(id)
    ELSE SplitBasisGeneral(self, division, seq)

\* a general path that synchronizes the stream only after issuing
CallStreamSyncAfterIssue(h) ==
    IF h.tag = "Waitless" THEN NoStream
    ELSE current_stream_synchronize(
             Ialltoallv(
                 Launch(Launch(NoStream, "pack", {"send"}), "alloc", {"recv"})))

\* the stream during the call that returned handle h: nothing on the fast
\* path; on the general path the send buffer is packed, the receive buffer
\* allocated, the stream synchronized and the collective issued, in this order
CallStream(h) ==
    IF h.tag = "Waitless" THEN NoStream
    ELSE Ialltoallv(
             current_stream_synchronize(
                 Launch(Launch(NoStream, "pack", {"send"}), "alloc", {"recv"})))

\* what a process hands to Ialltoallv: the arguments, the chunk of the send
\* buffer for every destination, and the buffers handed over with writes of
\* the stream still pending
Posted(h, stream) ==
    [tag     |-> "Posted",
     request |-> h.request,
     chunks  |-> [q \in DOMAIN h.request.send_counts |->
                    Chunk(h.send_coeff.data, h.request.send_offset[q],
                          h.request.send_counts[q])],
     stale   |-> stream.stale]

\* result of SplitBandsWait.wait that leaves the process axis outermost in
\* the merged basis dimension's place
SplitBandsResultNoUnscramble(recv_coeff, band_division) ==
    [coeff         |-> Flatten(Permute(recv_coeff, <<2, 3, 1, 4, 5, 0>>), 4, 5,
                               Storage("result", recv_coeff.base.seq)),
     band_division |-> band_division]

\* Wavefunction(basis, coeff=recv_coeff.permute(2, 3, 1, 4, 0, 5).flatten(4, 5),
\*              band_division=band_division)
SplitBandsResult(recv_coeff, band_division) ==
    [coeff         |-> Flatten(Permute(recv_coeff, <<2, 3, 1, 4, 0, 5>>), 4, 5,
                               Storage("result", recv_coeff.base.seq)),
     band_division |-> band_division]

\* result of SplitBasisWait.wait that moves the band index past the spinor
SplitBasisResultBandLast(recv_coeff) ==
    [coeff         |-> Permute(recv_coeff, <<1, 2, 3, 0, 4>>),
     band_division |-> NoValue]

\* Wavefunction(basis, coeff=recv_coeff.permute(1, 2, 0, 3, 4))
SplitBasisResult(recv_coeff) ==
    [coeff         |-> Permute(recv_coeff, <<1, 2, 0, 3, 4>>),
     band_division |-> NoValue]

(***************************************************************************)
(* Spec: the processes of comm_b run the same program of conversions on    *)
(* their shards of one Wavefunction, each at its own pace                  *)
(***************************************************************************)
Procs == 0..(cfg.n_procs_b - 1)

\* basis.division on process p (Basis.__init__: TaskDivision over n_tot)
BasisDivision(p) == TaskDivision(cfg.n_tot, cfg.n_procs_b, p)

\* the band division a band-distributed Wavefunction is created with
InitialBandDivision(p) == TaskDivision(cfg.n_bands, cfg.n_procs_b, p)

\* shape of the whole (undistributed) coefficient array
GlobalShape == <<cfg.dims[1], cfg.dims[2], cfg.n_bands, cfg.dims[3], cfg.n_tot>>

\* The initial coefficients: every element of the whole array holds its own
\* label (1 + its global row-major position), so that any two elements differ
\* and none equals the 0 of a fresh receive buffer.
InitialCoeff(p, band_off, n_band, basis_off, n_basis) ==
    LET shape == <<cfg.dims[1], cfg.dims[2], n_band, cfg.dims[3], n_basis>>
        lstr  == Strides(shape)
        gstr  == Strides(GlobalShape)
        off   == <<0, 0, band_off, 0, basis_off>>
    IN  [shape  |-> shape,
         data   |-> Elements([j \in 1..SeqProd(shape) |->
                       1 + SumTo([d \in 1..5 |->
                               ((((j - 1) \div lstr[d]) % shape[d]) + off[d])
                                   * gstr[d]], 5)]),
         stride |-> Elements(lstr),
         base   |-> Storage("init", 0)]

InitialWavefunction(p) ==
    IF cfg.start = "basis"
    THEN [coeff |-> InitialCoeff(p, 0, cfg.n_bands,
                                 BasisDivision(p).i_start, BasisDivision(p).n_mine),
          band_division |-> NoValue]
    ELSE [coeff |-> InitialCoeff(p, InitialBandDivision(p).i_start,
                                 InitialBandDivision(p).n_mine, 0, cfg.n_tot),
          band_division |-> InitialBandDivision(p)]

Ops == {"bands", "basis"}

\* (n_spins, nk, n_spinor) of the runs covered: two spin channels at two
\* k-points, and two-component spinors at one k-point
Dims == {<<2, 2, 1>>, <<1, 1, 2>>}

\* band counts covered: the small ones and that of the 10-band scenario
BandCounts == (0..MaxBands) \cup {10}

\* a run: the group, the array, the program, and the process (if any) that
\* hangs before making its call number at
Configs ==
    {[n_procs_b |-> P, n_tot |-> P * NEach, n_bands |-> nb, dims |-> d,
      start |-> st, prog |-> pr, hang |-> NoValue] :
        P \in 1..MaxProcs, nb \in BandCounts, d \in Dims,
        st \in {"basis", "band"}, pr \in [1..MaxOps -> Ops]}

NoTrace == [call |-> <<>>, wait |-> <<>>]

\* every process holds its shard of the initial array and no handle
Start ==
    /\ wfs = [p \in Procs |-> <<InitialWavefunction(p)>>]
    /\ cur = [p \in Procs |-> 1]
    /\ pc = [p \in Procs |-> [i |-> 1, phase |-> "call"]]
    /\ handle = [p \in Procs |-> NoValue]
    /\ net = [c \in 1..MaxOps |-> [p \in Procs |-> NoValue]]
    /\ res = [p \in Procs |-> <<>>]
    /\ trace = [p \in Procs |-> NoTrace]
    /\ PartIdle /\ BasisIdle

Init ==
    /\ cfg \in Configs
    /\ Start

\* number of collectives process p has issued on comm_b so far
Issued(p) == Cardinality({c \in DOMAIN net : net[c][p] # NoValue})

\* a request taken as complete without waiting for it (Test in place of Wait)
RequestCompleteUntested(c) == TRUE

\* the request of collective c is complete on a process once every process of
\* the group has posted its part
RequestComplete(c) == \A q \in Procs : net[c][q] # NoValue

\* process p has stopped for good before its next split call
Hung(p) ==
    /\ cfg.hang # NoValue
    /\ cfg.hang.proc = p
    /\ pc[p] = [i |-> cfg.hang.at, phase |-> "call"]

AtCall(p, op) ==
    /\ pc[p].phase = "call"
    /\ pc[p].i <= Len(cfg.prog)
    /\ cfg.prog[pc[p].i] = op
    /\ ~Hung(p)

\* a call that returns only once every peer has entered the collective
\* (the blocking Alltoallv)
CallBlockedOnPeers(p, h) ==
    IF h.tag = "Waitless" THEN {}
    ELSE {q \in Procs \ {p} : net[h.request.seq][q] = NoValue}

\* the peers a split call has to wait for before it returns handle h: none,
\* Ialltoallv returns at once
CallBlockedOn(p, h) == {}

Call(p, h) ==
    /\ handle' = [handle EXCEPT ![p] = h]
    /\ net' = IF h.tag = "Waitless" THEN net
              ELSE [net EXCEPT ![h.request.seq][p] = Posted(h, CallStream(h))]
    /\ trace' = [trace EXCEPT ![p] = [call |-> CallStream(h).ev, wait |-> <<>>]]
    /\ pc' = [pc EXCEPT ![p].phase = "wait"]
    /\ UNCHANGED <<cfg, wfs, cur, res, partVars, basisVars>>

\* the handle split_bands() / split_basis() of p's current Wavefunction makes
SplitBandsHandle(p) ==
    _split_bands(wfs[p][cur[p]], cur[p], BasisDivision(p), Issued(p) + 1)

SplitBasisHandle(p) ==
    _split_basis(wfs[p][cur[p]], cur[p], BasisDivision(p), Issued(p) + 1)

\* p is at a split_bands() call that can return now (the guard of SplitBands)
CanSplitBands(p) ==
    AtCall(p, "bands") /\ CallBlockedOn(p, SplitBandsHandle(p)) = {}

\* p is at a split_basis() call that can return now (the guard of SplitBasis)
CanSplitBasis(p) ==
    AtCall(p, "basis") /\ CallBlockedOn(p, SplitBasisHandle(p)) = {}

\* process p calls split_bands() on its current Wavefunction
SplitBands(p) ==
    /\ CanSplitBands(p)
    /\ Call(p, SplitBandsHandle(p))

\* process p calls split_basis() on its current Wavefunction
SplitBasis(p) ==
    /\ CanSplitBasis(p)
    /\ Call(p, SplitBasisHandle(p))

\* the receive buffer of process p when the Wait on the request of handle h
\* returns: it holds what the peers posted for p (nothing from a peer that
\* has posted nothing)
Received(p, h) ==
    Receive(h.recv_coeff,
            [q \in Procs |-> IF net[h.request.seq][q] = NoValue THEN <<>>
                             ELSE net[h.request.seq][q].chunks[p]],
            h.request.recv_counts, h.request.recv_offset, cfg.n_procs_b)

\* Wavefunction w after the buffer buf (row-major in its storage) was
\* written: if the coefficients of w live in the same storage, each of them
\* shows the element buf holds at its place in the storage
Overwritten(w, buf) ==
    IF buf = NoValue \/ w.coeff.base # buf.base THEN w
    ELSE LET shape == w.coeff.shape
             n     == Len(shape)
             lstr  == Strides(shape)
             at(j) == SumTo([d \in 1..n |->
                          (((j - 1) \div lstr[d]) % shape[d]) * w.coeff.stride[d]], n)
         IN  [w EXCEPT !.coeff.data =
                 Elements([j \in 1..Len(w.coeff.data) |->
                     IF at(j) < Len(buf.data) THEN buf.data[at(j) + 1]
                     ELSE w.coeff.data[j]])]

(***************************************************************************)
(* wait() of a handle, statement by statement.  A frame holds the handle   *)
(* (self), the events of this wait, the buffer MPI wrote, the Wavefunction  *)
(* to return and the exception raised, if any; a statement after an        *)
(* exception does nothing.                                                 *)
(***************************************************************************)
AttributeError == [tag |-> "AttributeError"]

WaitFrame(h) ==
    [h |-> h, ev |-> <<>>, wrote |-> NoValue, out |-> NoValue, err |-> NoValue]

Raise(f, e) == [f EXCEPT !.err = e, !.ev = Append(@, e.tag)]

\* self.request.Wait(): returns when the request is complete, the receive
\* buffer then holding what the peers sent, and leaves the request null; on a
\* null request it returns at once
RequestWait(f, p) ==
    IF f.h.request.active
    THEN [f EXCEPT !.h.request.active = FALSE,
                   !.h.recv_coeff = Received(p, f.h),
                   !.wrote = Received(p, f.h),
                   !.ev = Append(@, "wait")]
    ELSE [f EXCEPT !.ev = Append(@, "wait")]

\* a wait that keeps the send buffer
DelSendCoeffKept(f) ==
    IF f.err # NoValue THEN f
    ELSE [f EXCEPT !.ev = Append(@, "del_send")]

\* del self.send_coeff
DelSendCoeff(f) ==
    IF f.err # NoValue THEN f
    ELSE IF f.h.send_coeff = NoValue THEN Raise(f, AttributeError)
    ELSE [f EXCEPT !.h.send_coeff = NoValue, !.ev = Append(@, "del_send")]

\* result = qp.electrons.Wavefunction(self.basis, coeff=..., band_division=...)
BuildBandsResult(f) ==
    IF f.err # NoValue THEN f
    ELSE IF f.h.recv_coeff = NoValue THEN Raise(f, AttributeError)
    ELSE [f EXCEPT !.out = SplitBandsResult(f.h.recv_coeff, f.h.band_division),
                   !.ev = Append(@, "result")]

\* result = qp.electrons.Wavefunction(self.basis, coeff=...)
BuildBasisResult(f) ==
    IF f.err # NoValue THEN f
    ELSE IF f.h.recv_coeff = NoValue THEN Raise(f, AttributeError)
    ELSE [f EXCEPT !.out = SplitBasisResult(f.h.recv_coeff),
                   !.ev = Append(@, "result")]

\* del self.recv_coeff
DelRecvCoeff(f) ==
    IF f.err # NoValue THEN f
    ELSE IF f.h.recv_coeff = NoValue THEN Raise(f, AttributeError)
    ELSE [f EXCEPT !.h.recv_coeff = NoValue, !.ev = Append(@, "del_recv")]

\* a wait that builds the result only after releasing the receive buffer
SplitBandsWaitReleaseFirst(h, p) ==
    BuildBandsResult(DelRecvCoeff(DelSendCoeff(RequestWait(WaitFrame(h), p))))

\* SplitBandsWait.wait() on process p
SplitBandsWait_wait(h, p) ==
    DelRecvCoeff(BuildBandsResult(DelSendCoeff(RequestWait(WaitFrame(h), p))))

\* SplitBasisWait.wait() on process p
SplitBasisWait_wait(h, p) ==
    DelRecvCoeff(BuildBasisResult(DelSendCoeff(RequestWait(WaitFrame(h), p))))

\* the program of p takes the value wait() returned as its current array
Resolve(p, id) ==
    /\ cur' = [cur EXCEPT ![p] = id]
    /\ res' = [res EXCEPT ![p] = Append(@, id)]
    /\ pc' = [pc EXCEPT ![p] = [i |-> @.i + 1, phase |-> "call"]]
    /\ UNCHANGED <<partVars, basisVars>>

\* Waitless.wait(): returns the value it holds
WaitlessWait(p) ==
    /\ pc[p].phase = "wait"
    /\ handle[p].tag = "Waitless"
    /\ Resolve(p, handle[p].value)
    /\ UNCHANGED <<cfg, wfs, handle, net, trace>>

\* p's program is over, and p holds the handle of its last conversion
ProgramOver(p) == pc[p].phase = "call" /\ pc[p].i > Len(cfg.prog)

\* wait() is called on the handle of p: by the program, once per conversion,
\* or once more on the last handle after the program is over.  It can return
\* (or raise) only when its request is complete or null.
WaitCalled(p, tag) ==
    /\ handle[p].tag = tag
    /\ pc[p].phase = "wait" \/ ProgramOver(p)
    /\ handle[p].request.active => RequestComplete(handle[p].request.seq)

\* the effect of a wait() that ended with frame f: the handle as the wait
\* left it, the arrays of p as the transfer left them, and the returned
\* Wavefunction as the current array of p, or nothing returned when it raised
WaitGeneral(p, f) ==
    LET heap == Elements([id \in 1..Len(wfs[p]) |->
                    Overwritten(wfs[p][id], f.wrote)])
    IN  /\ handle' = [handle EXCEPT ![p] = f.h]
        /\ trace' = [trace EXCEPT ![p].wait = f.ev]
        /\ IF f.err = NoValue
           THEN /\ wfs' = [wfs EXCEPT ![p] = Append(heap, f.out)]
                /\ Resolve(p, Len(wfs[p]) + 1)
           ELSE /\ wfs' = [wfs EXCEPT ![p] = heap]
                /\ UNCHANGED <<cur, res, pc, partVars, basisVars>>
        /\ UNCHANGED <<cfg, net>>

SplitBandsWaitWait(p) ==
    /\ WaitCalled(p, "SplitBandsWait")
    /\ WaitGeneral(p, SplitBandsWait_wait(handle[p], p))

SplitBasisWaitWait(p) ==
    /\ WaitCalled(p, "SplitBasisWait")
    /\ WaitGeneral(p, SplitBasisWait_wait(handle[p], p))

Next ==
    \/ \E p \in Procs : SplitBands(p)
    \/ \E p \in Procs : SplitBasis(p)
    \/ \E p \in Procs : WaitlessWait(p)
    \/ \E p \in Procs : SplitBandsWaitWait(p)
    \/ \E p \in Procs : SplitBasisWaitWait(p)

Spec == Init /\ [][Next]_vars

(***************************************************************************)
(* SpecLive: the same processes under fair scheduling, one of which may    *)
(* stop for good before one of its calls                                   *)
(***************************************************************************)
\* runs on 2 bands with two-component spinors; without a hung process, or
\* with process proc hanging before its call number at
LiveConfigs ==
    {[n_procs_b |-> P, n_tot |-> P * NEach, n_bands |-> 2, dims |-> <<1, 1, 2>>,
      start |-> st, prog |-> pr, hang |-> hg] :
        P \in 1..MaxProcs, st \in {"basis", "band"}, pr \in [1..MaxOps -> Ops],
        hg \in {NoValue} \cup [proc : 0..(MaxProcs - 1), at : 1..MaxOps]}

LiveInit ==
    /\ cfg \in {c \in LiveConfigs :
                  c.hang # NoValue => c.hang.proc < c.n_procs_b}
    /\ Start

\* process p is at a statement that can complete now
CanStep(p) ==
    \/ CanSplitBands(p)
    \/ CanSplitBasis(p)
    \/ /\ pc[p].phase = "wait"
       /\ \/ handle[p].tag = "Waitless"
          \/ WaitCalled(p, "SplitBandsWait")
          \/ WaitCalled(p, "SplitBasisWait")

\* the step of process p that completes its statement: a call leaves p in
\* its wait(), a wait() that returns leaves p at its next call
Advance(p) ==
    /\ p \in Procs
    /\ CanStep(p)
    /\ pc' = [pc EXCEPT ![p] = IF @.phase = "call"
                               THEN [@ EXCEPT !.phase = "wait"]
                               ELSE [i |-> @.i + 1, phase |-> "call"]]

\* every process that can complete its statement eventually does: the
\* processes are separate operating-system processes, and Request.Wait()
\* returns once the request is complete
Fairness == \A p \in 0..(MaxProcs - 1) : WF_pc(Advance(p))

SpecLive == LiveInit /\ [][Next]_vars /\ Fairness

(***************************************************************************)
(* Properties of the transposition (Spec)                                  *)
(***************************************************************************)
\* id of the Wavefunction the i-th conversion of process p is called on
SrcId(p, i) == IF i = 1 THEN 1 ELSE res[p][i - 1]

\* number of split calls process p has made
CallsMade(p) == IF pc[p].phase = "wait" THEN pc[p].i ELSE pc[p].i - 1

Resolved(p, i) == i <= Len(res[p])

\* the i-th call of p is one the fast path is stated for: a single process,
\* or a source already in the layout asked for
FastCase(p, i) ==
    \/ cfg.n_procs_b = 1
    \/ cfg.prog[i] = "bands" /\ wfs[p][SrcId(p, i)].band_division # NoValue
    \/ cfg.prog[i] = "basis" /\ wfs[p][SrcId(p, i)].band_division = NoValue

AllDone == \A p \in Procs : Len(res[p]) = Len(cfg.prog)

\* C1: split_bands() then split_basis(), both waited for, on a
\* basis-distributed array gives every process back an array equal element
\* for element to its original one, for every group size and band count; and
\* split_basis() then split_bands() on a band-distributed array likewise.
RoundTrip ==
    \A p \in Procs : \A i \in 1..(Len(cfg.prog) - 1) :
        Resolved(p, i + 1) =>
            LET src  == wfs[p][SrcId(p, i)]
                back == wfs[p][res[p][i + 1]]
            IN  /\ (cfg.prog[i] = "bands" /\ cfg.prog[i + 1] = "basis"
                        /\ src.band_division = NoValue)
                      => (SameArray(back.coeff, src.coeff) /\ back.band_division = NoValue)
                /\ (cfg.prog[i] = "basis" /\ cfg.prog[i + 1] = "bands"
                        /\ src.band_division # NoValue)
                      => (SameArray(back.coeff, src.coeff)
                            /\ back.band_division = src.band_division)

\* 2 bands on 3 processes went to the band layout (the last process owning
\* no band) and back through two collectives, into new arrays
RoundTripWitness ==
    /\ cfg.n_procs_b = 3 /\ cfg.n_bands = 2 /\ cfg.n_tot = 6
    /\ cfg.start = "basis" /\ cfg.prog[1] = "bands" /\ cfg.prog[2] = "basis"
    /\ \A p \in Procs :
          /\ Resolved(p, 2)
          /\ res[p][1] = 2 /\ res[p][2] = 3
          /\ SameArray(wfs[p][3].coeff, wfs[p][1].coeff)
          /\ ~SameArray(wfs[p][2].coeff, wfs[p][1].coeff)
    /\ wfs[2][2].coeff.shape[3] = 0
    /\ wfs[0][2].coeff.shape[3] = 1

\* C2: a split call on the fast path (single process, or source already in
\* the layout asked for) returns an already-resolved handle whose wait()
\* yields the very same array instance; the call issues no collective,
\* synchronizes no stream and allocates no buffer.
FastPath ==
    \A p \in Procs :
        /\ \A i \in 1..CallsMade(p) :
              FastCase(p, i) =>
                  /\ Resolved(p, i) => res[p][i] = SrcId(p, i)
                  /\ (i = CallsMade(p)) =>
                        /\ handle[p] = Waitless(SrcId(p, i))
                        /\ trace[p] = NoTrace
        \* collectives issued and arrays created: one per call off the fast path
        /\ Issued(p) = Cardinality({i \in 1..CallsMade(p) : ~FastCase(p, i)})
        /\ Len(wfs[p]) = 1 + Cardinality({i \in 1..Len(res[p]) : ~FastCase(p, i)})

\* on 2 processes, split_bands() of a band-distributed array was resolved to
\* the array itself, and no process has issued a collective
FastPathWitness ==
    /\ cfg.n_procs_b = 2 /\ cfg.n_bands = 3
    /\ cfg.start = "band" /\ cfg.prog[1] = "bands"
    /\ \A p \in Procs :
          /\ Resolved(p, 1) /\ res[p][1] = 1 /\ cur[p] = 1
          /\ handle[p] = Waitless(1)
          /\ Issued(p) = 0 /\ Len(wfs[p]) = 1

\* the dimensions of a Wavefunction of process p match its layout
WellFormed(p, w) ==
    /\ Len(w.coeff.data) = SeqProd(w.coeff.shape)
    /\ IF w.band_division = NoValue
       THEN w.coeff.shape = <<cfg.dims[1], cfg.dims[2], cfg.n_bands, cfg.dims[3],
                              BasisDivision(p).n_mine>>
       ELSE /\ IsDivision(w.band_division)
            /\ w.band_division.n_tot = cfg.n_bands
            /\ w.band_division.n_procs = cfg.n_procs_b
            /\ w.band_division.i_proc = p
            /\ w.coeff.shape = <<cfg.dims[1], cfg.dims[2], w.band_division.n_mine,
                                 cfg.dims[3], cfg.n_tot>>

AllWellFormed ==
    \A p \in Procs : \A id \in 1..Len(wfs[p]) : WellFormed(p, wfs[p][id])

\* the array resolved from split_bands() carries a band division and the one
\* resolved from split_basis() carries none
ResolvedLayout(p, i) ==
    LET w == wfs[p][res[p][i]]
    IN  /\ cfg.prog[i] = "bands" => w.band_division # NoValue
        /\ cfg.prog[i] = "basis" => w.band_division = NoValue

\* C3 as stated: every array is well-formed for its layout, and every array
\* resolved from split_bands() carries the band Partition, every array
\* resolved from split_basis() carries no band_division.
LayoutWellFormedAnyGroup ==
    /\ AllWellFormed
    /\ \A p \in Procs : \A i \in 1..Len(res[p]) : ResolvedLayout(p, i)

\* C3 (amended): every array is well-formed for its layout (band_division
\* present iff band-distributed, dimensions as the layout states), and in a
\* group of more than one process the array resolved from split_bands()
\* carries the band Partition and the array resolved from split_basis()
\* carries no band_division.
LayoutWellFormed ==
    /\ AllWellFormed
    /\ cfg.n_procs_b > 1 =>
          \A p \in Procs : \A i \in 1..Len(res[p]) : ResolvedLayout(p, i)

\* on 2 processes a 3-band array went to the band layout and back: the
\* arrays of process 1 have the band dimensions 3, 1, 3
LayoutWellFormedWitness ==
    /\ cfg.n_procs_b = 2 /\ cfg.n_bands = 3 /\ cfg.n_tot = 4
    /\ cfg.start = "basis" /\ cfg.prog = <<"bands", "basis">>
    /\ AllDone
    /\ Len(wfs[1]) = 3
    /\ wfs[1][2].band_division # NoValue /\ wfs[1][2].coeff.shape[3] = 1
    /\ wfs[1][2].coeff.shape[5] = 4
    /\ wfs[1][3].band_division = NoValue /\ wfs[1][3].coeff.shape[3] = 3
    /\ wfs[1][3].coeff.shape[5] = 2

\* C4: on the general path split_bands() builds the band Partition over the
\* total band count with the process count and rank of the basis Partition;
\* the resolved shards hold near-equal band counts that sum to the total band
\* count, and each holds the full basis dimension n_tot.
BandShards ==
    /\ \A p \in Procs : \A i \in 1..Len(res[p]) :
          (cfg.prog[i] = "bands" /\ ~FastCase(p, i)) =>
              LET src == wfs[p][SrcId(p, i)]
                  w   == wfs[p][res[p][i]]
              IN  /\ IsDivision(w.band_division)
                  /\ w.band_division.n_tot = src.coeff.shape[3]
                  /\ w.band_division.n_tot = cfg.n_bands
                  /\ w.band_division.n_procs = BasisDivision(p).n_procs
                  /\ w.band_division.i_proc = BasisDivision(p).i_proc
                  /\ w.coeff.shape[3] = w.band_division.n_mine
                  /\ w.coeff.shape[5] = cfg.n_tot
    /\ \A i \in 1..Len(cfg.prog) :
          (cfg.prog[i] = "bands" /\ \A p \in Procs : Resolved(p, i) /\ ~FastCase(p, i)) =>
              LET size == [p \in Procs |-> wfs[p][res[p][i]].coeff.shape[3]]
              IN  /\ SumTo([k \in 1..cfg.n_procs_b |-> size[k - 1]], cfg.n_procs_b)
                        = cfg.n_bands
                  /\ \A p, q \in Procs : size[p] - size[q] <= 1

\* 10 bands on 3 processes: the resolved shards hold 4, 3 and 3 bands, each
\* with all n_tot basis entries
BandShardsWitness ==
    /\ cfg.n_procs_b = 3 /\ cfg.n_bands = 10 /\ cfg.start = "basis"
    /\ cfg.prog[1] = "bands"
    /\ \A p \in Procs : Resolved(p, 1) /\ res[p][1] = 2
    /\ wfs[0][2].coeff.shape[3] = 4
    /\ wfs[1][2].coeff.shape[3] = 3
    /\ wfs[2][2].coeff.shape[3] = 3
    /\ \A p \in Procs : wfs[p][2].coeff.shape[5] = cfg.n_tot

(***************************************************************************)
(* Properties of the handles (Spec)                                        *)
(***************************************************************************)
\* process p holds a handle of the general path
General(p) == handle[p].tag \in {"SplitBandsWait", "SplitBasisWait"}

\* what a wait() called now on the handle of p would do
FurtherWait(p) ==
    IF handle[p].tag = "SplitBandsWait"
    THEN SplitBandsWait_wait(handle[p], p)
    ELSE SplitBasisWait_wait(handle[p], p)

CallOrder == <<"pack", "alloc", "sync", "issue">>
WaitOrder == <<"wait", "del_send", "result", "del_recv">>
WaitRaised == <<"wait", "AttributeError">>

\* number of arrays the waits of p have returned (besides its initial array)
ArraysReturned(p) == Cardinality({i \in 1..Len(res[p]) : ~FastCase(p, i)})

\* C11: a general-path handle resolves at most once: after wait() has
\* returned the array the handle holds neither its send nor its receive
\* buffer, and a further wait() on it raises and returns no second array.
WaitAtMostOnce ==
    \A p \in Procs :
        /\ Len(wfs[p]) = 1 + ArraysReturned(p)
        /\ General(p) =>
              /\ trace[p].wait \in {<<>>, WaitOrder, WaitRaised}
              /\ trace[p].wait # <<>> => pc[p].phase = "call"
              /\ pc[p].phase = "call" =>
                    /\ handle[p].send_coeff = NoValue
                    /\ handle[p].recv_coeff = NoValue
                    /\ ~handle[p].request.active
                    /\ FurtherWait(p).err = AttributeError
                    /\ FurtherWait(p).out = NoValue
                    /\ FurtherWait(p).h = handle[p]

\* on 2 processes, process 0 waited again on the handle of its second
\* conversion: the wait raised and process 0 still holds 3 arrays
WaitAtMostOnceWitness ==
    /\ cfg.n_procs_b = 2 /\ cfg.start = "basis" /\ cfg.prog = <<"bands", "basis">>
    /\ handle[0].tag = "SplitBasisWait"
    /\ trace[0].wait = WaitRaised
    /\ Len(res[0]) = 2 /\ Len(wfs[0]) = 3 /\ cur[0] = 3

\* C12: on the general path the collective is issued inside the split call,
\* before the handle is returned; the handle holds the send buffer while the
\* collective is in flight; wait() blocks until the collective is complete,
\* then releases the send buffer, then builds the result from the receive
\* buffer, then releases the receive buffer; no result array exists before
\* the collective is complete.
ConversionOrder ==
    \A p \in Procs :
        /\ General(p) =>
              /\ trace[p].call = CallOrder
              /\ net[handle[p].request.seq][p] # NoValue
              /\ pc[p].phase = "wait" =>
                    /\ trace[p].wait = <<>>
                    /\ handle[p].request.active
                    /\ handle[p].send_coeff # NoValue
                    /\ handle[p].recv_coeff # NoValue
                    /\ \A id \in 1..Len(wfs[p]) :
                          wfs[p][id].coeff.base.seq # handle[p].request.seq
              /\ pc[p].phase = "call" =>
                    /\ trace[p].wait \in {WaitOrder, WaitRaised}
                    /\ RequestComplete(handle[p].request.seq)
        /\ \A id \in 2..Len(wfs[p]) : RequestComplete(wfs[p][id].coeff.base.seq)

\* on 2 processes both have issued the first collective; process 0 has
\* waited and holds the result, process 1 still holds both buffers
ConversionOrderWitness ==
    /\ cfg.n_procs_b = 2 /\ cfg.start = "basis" /\ cfg.prog[1] = "bands"
    /\ handle[0].tag = "SplitBandsWait" /\ handle[1].tag = "SplitBandsWait"
    /\ trace[0] = [call |-> CallOrder, wait |-> WaitOrder]
    /\ Len(wfs[0]) = 2
    /\ pc[1] = [i |-> 1, phase |-> "wait"]
    /\ handle[1].send_coeff # NoValue /\ Len(wfs[1]) = 1

\* the storages behind the arrays of process p
ArrayBases(p) == {wfs[p][id].coeff.base : id \in 1..Len(wfs[p])}

\* number of the collective issued by the i-th call of p (a general one)
SeqOf(p, i) == Cardinality({j \in 1..i : ~FastCase(p, j)})

\* a step leaves every array a process holds as it was
ArraysKept ==
    \A p \in Procs : \A id \in 1..Len(wfs[p]) : wfs'[p][id] = wfs[p][id]

\* the initial array is as created; the receive buffer of a collective in
\* flight is the storage of no array; the array resolved on the general
\* path is a new instance on another storage than its source
SourcesApart ==
    \A p \in Procs :
        /\ wfs[p][1] = InitialWavefunction(p)
        /\ (General(p) /\ pc[p].phase = "wait") =>
              handle[p].recv_coeff.base \notin ArrayBases(p)
        /\ \A i \in 1..Len(res[p]) :
              ~FastCase(p, i) =>
                  /\ res[p][i] = 1 + SeqOf(p, i)
                  /\ res[p][i] # SrcId(p, i)
                  /\ wfs[p][res[p][i]].coeff.base
                        # wfs[p][SrcId(p, i)].coeff.base

\* the array resolved on the general path lives in the receive buffer
RecvBacked ==
    \A p \in Procs : \A i \in 1..Len(res[p]) :
        ~FastCase(p, i) =>
            wfs[p][res[p][i]].coeff.base = Storage("recv", SeqOf(p, i))

\* the array resolved on the general path lives in the receive buffer
\* (always so for split_basis) or in a copy of it made by the same wait
RecvOrCopyBacked ==
    \A p \in Procs : \A i \in 1..Len(res[p]) :
        ~FastCase(p, i) =>
            LET base == wfs[p][res[p][i]].coeff.base
            IN  /\ base \in {Storage("recv", SeqOf(p, i)),
                             Storage("result", SeqOf(p, i))}
                /\ cfg.prog[i] = "basis" => base.kind = "recv"
                /\ base \notin {wfs[p][id].coeff.base : id \in 1..(res[p][i] - 1)}

\* C13 as stated: a conversion never mutates its input (coefficients, shape
\* and band_division of the source stay as they were from the call through
\* the time in flight and after wait()), and on the general path the result
\* is a new array instance backed by the newly allocated receive buffer, not
\* by the storage of the source.
NoInputMutationRecvBacked ==
    [](SourcesApart /\ RecvBacked) /\ [][ArraysKept]_vars

\* C13 (amended): a conversion never mutates its input, and on the general
\* path the result is a new array instance backed by storage this conversion
\* allocated (the receive buffer, or for split_bands() a copy of it made
\* when the result is built), never by the storage of the source.
NoInputMutation ==
    [](SourcesApart /\ RecvOrCopyBacked) /\ [][ArraysKept]_vars

\* on 2 processes process 0 went to the band layout and back: its initial
\* array is as created, the band-layout array lives in a copy made by the
\* first wait and the final array in the second receive buffer
NoInputMutationWitness ==
    /\ cfg.n_procs_b = 2 /\ cfg.n_bands = 3 /\ cfg.start = "basis"
    /\ cfg.prog = <<"bands", "basis">>
    /\ Len(res[0]) = 2 /\ Len(wfs[0]) = 3
    /\ wfs[0][1] = InitialWavefunction(0)
    /\ wfs[0][1].coeff.base = Storage("init", 0)
    /\ wfs[0][2].coeff.base = Storage("result", 1)
    /\ wfs[0][3].coeff.base = Storage("recv", 2)

\* C14: issuing never blocks: a process at a split call can make it and get
\* its handle whatever the other processes of the group have done (also
\* when no peer has issued the matching collective); the only step that can
\* wait on a peer is wait() on a general-path handle, which can return
\* exactly when the collective is complete.  (CanSplitBands, CanSplitBasis
\* and WaitCalled are the guards of the actions: the rest of each action
\* sets the next state.)
IssueNeverBlocks ==
    \A p \in Procs :
        /\ (pc[p].phase = "call" /\ pc[p].i <= Len(cfg.prog)) =>
              CanSplitBands(p) \/ CanSplitBasis(p)
        /\ pc[p].phase = "wait" =>
              IF General(p)
              THEN (WaitCalled(p, "SplitBandsWait") \/ WaitCalled(p, "SplitBasisWait"))
                      <=> RequestComplete(handle[p].request.seq)
              ELSE ENABLED WaitlessWait(p)

\* on 3 processes, process 1 has issued the first collective and holds its
\* handle while neither peer has made its call; its wait() cannot return
IssueNeverBlocksWitness ==
    /\ cfg.n_procs_b = 3 /\ cfg.start = "basis" /\ cfg.prog[1] = "bands"
    /\ pc[1] = [i |-> 1, phase |-> "wait"]
    /\ handle[1].tag = "SplitBandsWait"
    /\ net[1][1] # NoValue /\ net[1][0] = NoValue /\ net[1][2] = NoValue
    /\ pc[0] = [i |-> 1, phase |-> "call"] /\ pc[2] = [i |-> 1, phase |-> "call"]
    /\ ~WaitCalled(1, "SplitBandsWait")

\* position of event e in the sequence of events ev (0 when it is not there)
EventAt(ev, e) ==
    IF \E j \in 1..Len(ev) : ev[j] = e
    THEN CHOOSE j \in 1..Len(ev) : ev[j] = e
    ELSE 0

\* C19: on the general path of both conversions the compute stream is
\* synchronized after the send buffer has been packed and the receive buffer
\* allocated, and before the collective is issued, so that MPI is handed no
\* buffer with writes still pending; and the send buffer is not written
\* between the synchronization and the completion of the collective.
SyncBeforeIssue ==
    /\ \A c \in DOMAIN net : \A p \in Procs :
          net[c][p] # NoValue => net[c][p].stale = {}
    /\ \A p \in Procs : General(p) =>
          LET ev == trace[p].call
              h  == handle[p]
          IN  /\ EventAt(ev, "pack") > 0 /\ EventAt(ev, "alloc") > 0
              /\ EventAt(ev, "pack") < EventAt(ev, "sync")
              /\ EventAt(ev, "alloc") < EventAt(ev, "sync")
              /\ EventAt(ev, "sync") < EventAt(ev, "issue")
              /\ pc[p].phase = "wait" =>
                    \A q \in Procs :
                        net[h.request.seq][p].chunks[q]
                            = Chunk(h.send_coeff.data, h.request.send_offset[q],
                                    h.request.send_counts[q])

\* on 2 processes, process 0 has packed, allocated, synchronized and issued
\* its split_basis() collective, which is still in flight
SyncBeforeIssueWitness ==
    /\ cfg.n_procs_b = 2 /\ cfg.start = "band" /\ cfg.prog[1] = "basis"
    /\ cfg.n_bands = 3
    /\ handle[0].tag = "SplitBasisWait"
    /\ pc[0] = [i |-> 1, phase |-> "wait"]
    /\ trace[0].call = CallOrder
    /\ net[1][0] # NoValue /\ net[1][0].stale = {}
    /\ net[1][1] = NoValue

\* the elements of a buffer a request assigns to peer q
Region(offset, counts, q) == offset[q]..(offset[q] + counts[q] - 1)

\* the regions of the peers are pairwise disjoint and cover 0 .. size - 1
Partitions(offset, counts, size) ==
    /\ \A q, r \in DOMAIN counts :
          q # r => Region(offset, counts, q) \cap Region(offset, counts, r) = {}
    /\ UNION {Region(offset, counts, q) : q \in DOMAIN counts} = 0..(size - 1)

\* C20: the counts and offsets every process computes on its own agree: for
\* every ordered pair (p, q) of the group, p sends q as many elements as q
\* expects from p; on each process the send regions are pairwise disjoint,
\* contiguous (each starts where that of the previous rank ends) and cover
\* the send buffer exactly, and the receive regions are pairwise disjoint and
\* cover the receive buffer exactly.
CountsConsistent ==
    /\ \A c \in DOMAIN net : \A p, q \in Procs :
          (net[c][p] # NoValue /\ net[c][q] # NoValue) =>
              net[c][p].request.send_counts[q] = net[c][q].request.recv_counts[p]
    /\ \A p \in Procs : (General(p) /\ pc[p].phase = "wait") =>
          LET h == handle[p]
              r == h.request
          IN  /\ DOMAIN r.send_counts = Procs /\ DOMAIN r.recv_counts = Procs
              /\ DOMAIN r.send_offset = Procs /\ DOMAIN r.recv_offset = Procs
              /\ \A q \in Procs : r.send_counts[q] >= 0 /\ r.recv_counts[q] >= 0
              /\ r.send_offset[0] = 0
              /\ \A q \in Procs \ {0} :
                    r.send_offset[q] = r.send_offset[q - 1] + r.send_counts[q - 1]
              /\ Partitions(r.send_offset, r.send_counts, Len(h.send_coeff.data))
              /\ Partitions(r.recv_offset, r.recv_counts, Len(h.recv_coeff.data))
              /\ net[r.seq][p].request = r

\* 10 bands on 3 processes, all in split_bands(): every process sends the
\* bands 0-3, 4-6 and 7-9 of its 2 basis entries to the processes 0, 1 and 2;
\* process 0 expects 4 bands from each peer, process 2 expects 3
CountsConsistentWitness ==
    /\ cfg.n_procs_b = 3 /\ cfg.n_bands = 10 /\ cfg.dims = <<1, 1, 2>>
    /\ cfg.start = "basis" /\ cfg.prog[1] = "bands"
    /\ \A p \in Procs : pc[p] = [i |-> 1, phase |-> "wait"]
    /\ handle[1].request.send_counts = [q \in Procs |-> IF q = 0 THEN 16 ELSE 12]
    /\ handle[1].request.send_offset = [q \in Procs |-> IF q = 0 THEN 0 ELSE 4 + 12 * q]
    /\ handle[0].request.recv_counts = [q \in Procs |-> 16]
    /\ handle[2].request.recv_counts = [q \in Procs |-> 12]
    /\ handle[2].request.recv_offset = [q \in Procs |-> 12 * q]

(***************************************************************************)
(* Failures of construction (SpecPartition, SpecBasis, SpecBasisReal)      *)
(***************************************************************************)
\* attributes of a Basis assigned after the check of real wavefunctions
AfterRealCheck ==
    {"grid", "n", "n_min", "n_max", "n_tot", "fft_index", "pad_index",
     "division", "mine", "pad_index_mine"}

\* attributes of a Basis assigned after the assertion on the padding
AfterAssertion == {"fft_index", "pad_index", "division", "mine", "pad_index_mine"}

\* C16: Basis construction raises an error, before the grid, the basis
\* indices, pad_index or the Partition are built, whenever real wavefunctions
\* are requested together with n_spinor = 2 or with a k-point that is not
\* Gamma; real wavefunctions with one spinor component and all k-points at
\* Gamma are accepted, and when real wavefunctions are not requested neither
\* two spinor components nor other k-points raise the error.
RealRejected ==
    basis # NoValue =>
        \A p \in BasisProcs :
            LET b == basis.of[p]
                unsupported ==
                    \/ bIn.n_spinor = 2
                    \/ \E j \in DOMAIN bIn.k : bIn.k[j] # 0
            IN  /\ (bIn.real_wavefunctions /\ unsupported) =>
                      /\ b.tag = "ValueError"
                      /\ DOMAIN b \cap AfterRealCheck = {}
                /\ ~(bIn.real_wavefunctions /\ unsupported) =>
                      /\ b.tag # "ValueError"
                      /\ "grid" \in DOMAIN b
                      /\ b.real_wavefunctions = bIn.real_wavefunctions

\* real wavefunctions with the k-points -1 and 1 (neither is Gamma) and one
\* spinor component: both processes got the error
RealRejectedWitness ==
    /\ basis # NoValue
    /\ bIn.real_wavefunctions /\ bIn.n_spinor = 1 /\ bIn.k = <<0 - 1, 1>>
    /\ bIn.n_procs_b = 2
    /\ basis.of[0].tag = "ValueError" /\ basis.of[1].tag = "ValueError"

\* C17: constructing a Partition with n_procs = 0 or with i_proc >= n_procs
\* fails with InvalidPartition, and no Partition value, hence no n_prev, is
\* produced.
PartitionRejected ==
    (part # NoValue /\ ~ValidPartitionArgs) =>
        /\ part = InvalidPartition
        /\ ~IsDivision(part)
        /\ "n_prev" \notin DOMAIN part

\* the rank 2 of a group of 2 processes was rejected
PartitionRejectedWitness ==
    /\ pIn.n_procs = 2 /\ pIn.i_proc = 2 /\ pIn.n_tot = 7
    /\ part = InvalidPartition

\* C18: whenever the padded count n_tot exceeds the number of grid points
\* n_fft, Basis construction stops with an AssertionError before fft_index,
\* pad_index or the Partition are built; every constructed Basis has
\* n_tot <= n_fft.
PaddingAsserted ==
    basis # NoValue =>
        \A p \in BasisProcs :
            LET b     == basis.of[p]
                n_max == GlobalMax(BasisCounts(bIn.within_cutoff), bIn.n_other)
                P     == bIn.n_procs_b
                \* the least multiple of P that is not below n_max
                n_tot == CHOOSE m \in n_max..(n_max + P - 1) : m % P = 0
            IN  /\ n_tot > bIn.n_fft =>
                      /\ b.tag = "AssertionError"
                      /\ b.n_tot = n_tot
                      /\ DOMAIN b \cap AfterAssertion = {}
                /\ BasisBuilt(p) =>
                      /\ b.n_tot <= bIn.n_fft
                      /\ AfterAssertion \subseteq DOMAIN b

\* 3 grid points all within the cutoff, 2 processes: n_tot = 4 > n_fft = 3
PaddingAssertedWitness ==
    /\ basis # NoValue
    /\ bIn.n_fft = 3 /\ bIn.n_procs_b = 2
    /\ bIn.within_cutoff[1] = {0, 1, 2}
    /\ basis.of[0].tag = "AssertionError" /\ basis.of[0].n_tot = 4
    /\ basis.of[1].tag = "AssertionError"

(***************************************************************************)
(* Completion of the collective (SpecLive)                                 *)
(***************************************************************************)
\* process p is inside the first wait() on its handle of collective c
WaitingOn(p, c) ==
    /\ p \in Procs
    /\ pc[p].phase = "wait"
    /\ General(p)
    /\ handle[p].request.seq = c

\* a wait() of process p on collective c has returned: p holds the array the
\* wait built from the receive buffer of c
ReturnedFrom(p, c) ==
    /\ p \in Procs
    /\ \E id \in 1..Len(wfs[p]) :
          /\ wfs[p][id].coeff.base.kind \in {"recv", "result"}
          /\ wfs[p][id].coeff.base.seq = c

\* process q has stopped for good without having issued collective c
NeverIssues(q, c) == q \in Procs /\ Hung(q) /\ net[c][q] = NoValue

\* every process of the group has issued collective c
AllIssued(c) == {q \in Procs : net[c][q] # NoValue} = Procs

\* no process stays for ever inside a wait() on a collective all have issued
CompleteReturns ==
    \A p \in 0..(MaxProcs - 1) :
        []<>~(\E c \in 1..MaxOps : WaitingOn(p, c) /\ AllIssued(c))

\* a wait() ends only by returning the array built from the receive buffer of
\* its collective, and only when every process has issued the collective; up
\* to then the handle stays as it is
WaitEndsReturned ==
    \A p \in Procs : \A c \in 1..MaxOps :
        /\ (WaitingOn(p, c) /\ ~WaitingOn(p, c)') =>
              /\ AllIssued(c)
              /\ ~ReturnedFrom(p, c)
              /\ ReturnedFrom(p, c)'
        /\ (WaitingOn(p, c) /\ ~AllIssued(c)) =>
              /\ WaitingOn(p, c)'
              /\ handle'[p] = handle[p]

\* a process that has stopped without issuing a collective never issues it
HungStays ==
    \A q \in Procs : \A c \in 1..MaxOps :
        NeverIssues(q, c) => NeverIssues(q, c)'

\* a wait() has returned only from collectives every process has issued
ReturnedAllIssued ==
    \A p \in Procs : \A c \in 1..MaxOps :
        ReturnedFrom(p, c) => AllIssued(c)

\* C15: under fair scheduling every wait() on a collective that every process
\* of the group has issued eventually returns.  A collective that some peer
\* never issues is never issued by all, and a wait() on it never returns: a
\* wait() has returned only from collectives all have issued, and no step
\* (timeout, cancellation, retry) ends a wait() or changes its handle before
\* all have issued its collective.
CompletionNeedsGroup ==
    /\ CompleteReturns
    /\ []ReturnedAllIssued
    /\ [][WaitEndsReturned]_vars
    /\ [][HungStays]_vars

\* processes 0 and 2 of 3 wait on the first collective, which process 1,
\* hung before its first call, never issues
CompletionNeedsGroupWitness ==
    /\ cfg.n_procs_b = 3
    /\ cfg.hang = [proc |-> 1, at |-> 1]
    /\ NeverIssues(1, 1)
    /\ WaitingOn(0, 1) /\ WaitingOn(2, 1)
    /\ ~ReturnedFrom(0, 1) /\ ~ReturnedFrom(2, 1)

====
